---- MODULE Spec2Model ----
(***************************************************************************)
(* Model of stk-memes' provisioning program (src/main.go, func main).      *)
(*                                                                         *)
(* One primary thread runs main top to bottom; pc names the statement it   *)
(* is about to execute.  Two goroutines (go copy(...)) relay the session's *)
(* stderr and stdout.  Every log.Fatalln is os.Exit(1): the process ends   *)
(* at once, goroutines die with it and deferred calls do NOT run.          *)
(* Returning from main runs the deferred session.Close() and exits 0.      *)
(*                                                                         *)
(* The behaviour of the collaborators (file system, compute driver, ssh    *)
(* library, remote shell) in one run is the variable fault: the first call *)
(* of main that returns an error, or none.                                 *)
(***************************************************************************)
EXTENDS Integers, Sequences, FiniteSets, TLC

\* ---------------------------------------------------------------- bounds

\* Longest drawn CommandList (the program's own list is added to the draw).
MaxCmds == 2
\* Longest time, in minutes, driver.Create takes to return.
MaxLatency == 2
\* Most output chunks of one stream waiting to be relayed.
MaxPending == 1

\* ------------------------------------------------------ program constants

\* time.Sleep(1 * time.Minute)
SleepMinutes == 1

\* The two output streams of the session, each relayed by one goroutine.
Streams == {"stderr", "stdout"}

\* ----------------------------------------------------------- CommandList

\* A variant of Join that puts nothing between the tokens.
RECURSIVE JoinNoSep(_)
JoinNoSep(cmd) ==
    IF Len(cmd) = 0 THEN "" ELSE cmd[1] \o JoinNoSep(Tail(cmd))

\* strings.Join(cmd, " "): the tokens, a single space between neighbours.
RECURSIVE Join(_)
Join(cmd) ==
    IF Len(cmd) = 0 THEN ""
    ELSE IF Len(cmd) = 1 THEN cmd[1]
    ELSE cmd[1] \o " " \o Join(Tail(cmd))

\* fmt.Fprintf(stdin, "%s\n", cmdstr): the bytes of one command's line.
Line(cmd) == Join(cmd) \o "\n"

\* fmt.Sprintf("--login=%s", ...), fmt.Sprintf("--password=%s", ...)
Sprintf(prefix, s) == prefix \o s

\* The literal of main: cmds := [][]string{...}
ProgramCmds(username, password) ==
    << <<"sudo", "apt-get", "-y", "update">>,
       <<"sudo", "apt-get", "-y", "upgrade">>,
       <<"sudo", "apt-get", "-y", "install",
         "build-essential", "subversion", "cmake", "libbluetooth-dev",
         "libsdl2-dev", "libcurl4-openssl-dev", "libenet-dev",
         "libfreetype6-dev", "libharfbuzz-dev", "libjpeg-dev", "libogg-dev",
         "libopenal-dev", "libpng-dev", "libssl-dev", "libvorbis-dev",
         "nettle-dev", "pkg-config", "zlib1g-dev">>,
       <<"mkdir", "stk">>,
       <<"cd", "stk">>,
       <<"git", "clone", "https://github.com/supertuxkart/stk-code", "stk-code">>,
       <<"svn", "co", "https://svn.code.sf.net/p/supertuxkart/code/stk-assets", "stk-assets">>,
       <<"cd", "stk-code">>,
       <<"mkdir", "cmake_build">>,
       <<"cd", "cmake_build">>,
       <<"cmake", "..", "-DSERVER_ONLY=ON">>,
       <<"sudo", "make", "install">>,
       <<"supertuxkart", "--init-user",
         Sprintf("--login=", username), Sprintf("--password=", password)>>,
       <<"wget",
         "https://gist.githubusercontent.com/jbpratt/e31529a43e274cb5b1af3234169a98c4/raw/bc9cb9d743be44b748aeaf0cf89ed915751669d1/stk-conf",
         "-O", "$HOME/.config/supertuxkart/config-0.10/server_config.xml">>,
       <<"sudo", "ufw", "allow", "2759">> >>

\* cfg.STKUsername, cfg.STKPassword: the values a configuration file gives.
Usernames == {"kart"}
Passwords == {"s3cret"}

\* Commands a drawn CommandList is made of: no token, one, two, three.
Commands ==
    { <<>>, <<"ls">>, <<"echo", "hi">>, <<"cd", "stk">>, <<"sudo", "make", "install">> }

\* Every sequence over S of length at most n.
SeqUpTo(S, n) == UNION { [1..k -> S] : k \in 0..n }

\* The CommandLists a run is started with.
CommandLists ==
    SeqUpTo(Commands, MaxCmds)
        \cup { ProgramCmds(u, p) : u \in Usernames, p \in Passwords }

\* ---------------------------------------------------------------- faults

\* The calls of main that return an error, in program order.  ssh.Dial
\* fails in two ways: the TCP connect ("Dial") or the handshake ("Auth").
Stages ==
    { "Open", "ReadAll", "Unmarshal", "ReadPub", "NewOVHDriver", "Create",
      "ReadPriv", "ParsePrivateKey", "Dial", "Auth", "NewSession",
      "StdinPipe", "StderrPipe", "StdoutPipe", "Shell", "Wait" }

NoFault == [stage |-> "none", k |-> 0]

\* The behaviours of the collaborators for a run over the list L.
Faults(L) ==
    {NoFault}
        \cup { [stage |-> s, k |-> 0] : s \in Stages }
        \cup { [stage |-> "Write", k |-> n] : n \in 1..Len(L) }

VARIABLES
    cmds,        \* the CommandList of the run
    fault,       \* which call fails in this run
    pc,          \* the statement main executes next
    i,           \* range index of the write loop: commands 1..i-1 are done
    events,      \* history: the calls main has made, with their results
    log,         \* what main has logged
    stdinBytes,  \* the bytes the session input stream has received
    node,        \* the provider holds a node created by this run
    latency,     \* minutes left before driver.Create returns
    sleepLeft,   \* minutes left of time.Sleep
    session,     \* "none" | "open" | "closed"
    closeCount,  \* how often session.Close() ran
    remote,      \* the remote shell: "none" | "running" | "exit0" | "exit1"
    relay,       \* per stream, its goroutine: "idle" | "copying" | "eof" | "failed"
    pending,     \* per stream, chunks the session holds for the relay
    proc,        \* "running" | "exited"
    exitCode     \* the status the process exited with

vars ==
    << cmds, fault, pc, i, events, log, stdinBytes, node, latency, sleepLeft,
       session, closeCount, remote, relay, pending, proc, exitCode >>

\* One call of main and how it ended.
Ev(op, k, ok) == [op |-> op, k |-> k, ok |-> ok]

Init ==
    /\ cmds \in CommandLists
    /\ fault \in Faults(cmds)
    /\ pc = "Open"
    /\ i = 1
    /\ events = << >>
    /\ log = << >>
    /\ stdinBytes = ""
    /\ node = FALSE
    /\ latency = 0
    /\ sleepLeft = 0
    /\ session = "none"
    /\ closeCount = 0
    /\ remote = "none"
    /\ relay = [s \in Streams |-> "idle"]
    /\ pending = [s \in Streams |-> 0]
    /\ proc = "running"
    /\ exitCode = 0

\* ------------------------------------------------------------- helpers

\* The text of an error value: the collaborator's words, opaque to main.
ErrText == "<err>"

\* The line log.Fatalln writes when the call op of main has returned an
\* error: the words main gives it, then the error.  A failed TCP connect
\* ("Dial") and a failed handshake ("Auth") are both the err of ssh.Dial.
FatalMsg(op) ==
    CASE op = "Open" -> "failed to open cfg file: <cfgPath> " \o ErrText
      [] op = "ReadAll" -> "failed to read cfg file: " \o ErrText
      [] op = "Unmarshal" -> "failed to unmarshal cfg contents: " \o ErrText
      [] op = "ReadPub" -> "error reading ssh public key " \o ErrText
      [] op = "NewOVHDriver" -> ErrText
      [] op = "Create" -> "<req> " \o ErrText
      [] op = "ReadPriv" -> "failed to read priv key: %w " \o ErrText
      [] op = "ParsePrivateKey" -> "failed to parse private key: %w " \o ErrText
      [] op \in {"Dial", "Auth"} -> "failed to dial node: %w " \o ErrText
      [] op = "NewSession" -> "failed to create ssh session: %w " \o ErrText
      [] op = "StdinPipe" -> "failed to create stdin: %w " \o ErrText
      [] op = "StderrPipe" -> "failed to create stderr: %w " \o ErrText
      [] op = "StdoutPipe" -> "failed to create stdout: %w " \o ErrText
      [] op = "Shell" -> "failed to start ssh shell: %w " \o ErrText
      [] op = "Write" -> "failed to write command: %w " \o ErrText
      [] op = "Wait" -> ErrText

\* log.Fatalln(...): the lines logged in this step, then os.Exit(1).  The
\* process ends here: nothing deferred runs, the goroutines are gone.
Fatal(lines) ==
    /\ log' = log \o lines
    /\ proc' = "exited"
    /\ exitCode' = 1

\* How many bytes of line a failed write has delivered: fewer than all of
\* them.  Drawn: none, half of them, all but the newline.
ShortWrites(line) == {0, Len(line) \div 2, Len(line) - 1}

\* %q of log.Printf("+ %q\n", cmdstr)
Quote(s) == "\"" \o s \o "\""

\* A variant of LoopNext that leaves the loop one command early.
LoopNextEarly(j) == IF j >= Len(cmds) THEN "Wait" ELSE "Write"

\* for _, cmd := range cmds: where main goes when the range index is j.
LoopNext(j) == IF j > Len(cmds) THEN "Wait" ELSE "Write"

\* A call of main at label at that either fails (log.Fatalln(msg)) or
\* lets main go on to next, having then logged said.
Call(at, op, next, said, msg) ==
    /\ proc = "running"
    /\ pc = at
    /\ IF fault.stage = op
         THEN /\ events' = Append(events, Ev(op, 0, FALSE))
              /\ Fatal(<<msg>>)
              /\ pc' = pc
         ELSE /\ events' = Append(events, Ev(op, 0, TRUE))
              /\ log' = log \o said
              /\ pc' = next
              /\ UNCHANGED <<proc, exitCode>>

envVars == <<cmds, fault>>
sessVars == <<session, closeCount, remote, relay, pending>>
timeVars == <<latency, sleepLeft>>

\* ------------------------------------------------- main: configuration

\* file, err := os.Open(*cfgPath)
OpenCfg ==
    /\ Call("Open", "Open", "ReadAll", << >>,
            FatalMsg("Open"))
    /\ UNCHANGED <<envVars, i, stdinBytes, node, timeVars, sessVars>>

\* contents, err := ioutil.ReadAll(file)
ReadCfg ==
    /\ Call("ReadAll", "ReadAll", "Unmarshal", << >>,
            FatalMsg("ReadAll"))
    /\ UNCHANGED <<envVars, i, stdinBytes, node, timeVars, sessVars>>

\* json.Unmarshal(contents, config)
UnmarshalCfg ==
    /\ Call("Unmarshal", "Unmarshal", "ReadPub", << >>,
            FatalMsg("Unmarshal"))
    /\ UNCHANGED <<envVars, i, stdinBytes, node, timeVars, sessVars>>

\* d, err := ioutil.ReadFile(config.IdentityFile + ".pub")
ReadPub ==
    /\ Call("ReadPub", "ReadPub", "NewOVHDriver", << >>,
            FatalMsg("ReadPub"))
    /\ UNCHANGED <<envVars, i, stdinBytes, node, timeVars, sessVars>>

\* driver, err := node.NewOVHDriver(...)
NewOVHDriver ==
    /\ Call("NewOVHDriver", "NewOVHDriver", "Create", << >>,
            FatalMsg("NewOVHDriver"))
    /\ UNCHANGED <<envVars, i, stdinBytes, node, timeVars, sessVars>>

\* ------------------------------------------------ main: node and delay

\* log.Println("creating node"); driver.Create(ctx, req) is entered and
\* takes lat minutes.
CreateCall ==
    /\ proc = "running"
    /\ pc = "Create"
    /\ \E lat \in 0..MaxLatency : latency' = lat
    /\ log' = Append(log, "creating node")
    /\ pc' = "Creating"
    /\ UNCHANGED <<envVars, i, events, stdinBytes, node, sleepLeft, sessVars,
                   proc, exitCode>>

\* A minute passes inside driver.Create.
CreateTick ==
    /\ proc = "running"
    /\ pc = "Creating"
    /\ latency > 0
    /\ latency' = latency - 1
    /\ UNCHANGED <<envVars, pc, i, events, log, stdinBytes, node, sleepLeft,
                   sessVars, proc, exitCode>>

\* A variant of CreateReturn that goes on after an error of driver.Create.
CreateReturnIgnoreErr ==
    /\ proc = "running"
    /\ pc = "Creating"
    /\ latency = 0
    /\ events' = Append(events, Ev("Create", 0, fault.stage # "Create"))
    /\ log' = Append(log, "node created")
    /\ pc' = "Sleep"
    /\ node' = (fault.stage # "Create")
    /\ UNCHANGED <<envVars, i, stdinBytes, timeVars, sessVars, proc, exitCode>>

\* n, err := driver.Create(ctx, req) returns; if err != nil log.Fatalln(req, err);
\* log.Println("node created")
CreateReturn ==
    /\ latency = 0
    /\ Call("Creating", "Create", "Sleep", <<"node created">>,
            FatalMsg("Create"))
    /\ node' = (fault.stage # "Create")
    /\ UNCHANGED <<envVars, i, stdinBytes, timeVars, sessVars>>

\* log.Println("sleeping for node creation"); time.Sleep(1 * time.Minute) begins
SleepCall ==
    /\ proc = "running"
    /\ pc = "Sleep"
    /\ sleepLeft' = SleepMinutes
    /\ log' = Append(log, "sleeping for node creation")
    /\ pc' = "Sleeping"
    /\ UNCHANGED <<envVars, i, events, stdinBytes, node, latency, sessVars,
                   proc, exitCode>>

\* A minute of the sleep passes.
SleepTick ==
    /\ proc = "running"
    /\ pc = "Sleeping"
    /\ sleepLeft > 0
    /\ sleepLeft' = sleepLeft - 1
    /\ UNCHANGED <<envVars, pc, i, events, log, stdinBytes, node, latency,
                   sessVars, proc, exitCode>>

\* A variant of SleepReturn that returns before the duration has passed.
SleepReturnEarly ==
    /\ proc = "running"
    /\ pc = "Sleeping"
    /\ events' = Append(events, Ev("Sleep", 0, TRUE))
    /\ pc' = "ReadPriv"
    /\ UNCHANGED <<envVars, i, log, stdinBytes, node, timeVars, sessVars,
                   proc, exitCode>>

\* time.Sleep returns: the whole duration has passed.
SleepReturn ==
    /\ proc = "running"
    /\ pc = "Sleeping"
    /\ sleepLeft = 0
    /\ events' = Append(events, Ev("Sleep", 0, TRUE))
    /\ pc' = "ReadPriv"
    /\ UNCHANGED <<envVars, i, log, stdinBytes, node, timeVars, sessVars,
                   proc, exitCode>>

\* -------------------------------------------- main: key, dial, session

\* privkey, err := ioutil.ReadFile(config.IdentityFile)
ReadPriv ==
    /\ Call("ReadPriv", "ReadPriv", "ParsePrivateKey", << >>,
            FatalMsg("ReadPriv"))
    /\ UNCHANGED <<envVars, i, stdinBytes, node, timeVars, sessVars>>

\* signer, err := ssh.ParsePrivateKey(privkey)
ParsePrivateKey ==
    /\ Call("ParsePrivateKey", "ParsePrivateKey", "Dial", << >>,
            FatalMsg("ParsePrivateKey"))
    /\ UNCHANGED <<envVars, i, stdinBytes, node, timeVars, sessVars>>

\* A variant of Dial that goes on after an error of ssh.Dial.
DialIgnoreErr ==
    /\ proc = "running"
    /\ pc = "Dial"
    /\ events' = Append(events, Ev("Dial", 0, fault.stage \notin {"Dial", "Auth"}))
    /\ log' = Append(log, "sshing to the server")
    /\ pc' = "NewSession"
    /\ UNCHANGED <<envVars, i, stdinBytes, node, timeVars, sessVars, proc, exitCode>>

\* A variant of Dial that deletes the node when ssh.Dial has failed.
DialRollback ==
    /\ proc = "running"
    /\ pc = "Dial"
    /\ IF fault.stage \in {"Dial", "Auth"}
         THEN /\ events' = Append(events, Ev("Dial", 0, FALSE))
              /\ Fatal(<<"sshing to the server", FatalMsg(fault.stage)>>)
              /\ pc' = pc
              /\ node' = FALSE
         ELSE /\ events' = Append(events, Ev("Dial", 0, TRUE))
              /\ log' = Append(log, "sshing to the server")
              /\ pc' = "NewSession"
              /\ UNCHANGED <<proc, exitCode, node>>
    /\ UNCHANGED <<envVars, i, stdinBytes, timeVars, sessVars>>

\* A variant of Dial that dials again when ssh.Dial has failed.
DialRetry ==
    /\ proc = "running"
    /\ pc = "Dial"
    /\ events' = Append(events, Ev("Dial", 0, fault.stage \notin {"Dial", "Auth"}))
    /\ log' = Append(log, "sshing to the server")
    /\ pc' = IF fault.stage \in {"Dial", "Auth"} THEN "Dial" ELSE "NewSession"
    /\ UNCHANGED <<envVars, i, stdinBytes, node, timeVars, sessVars, proc, exitCode>>

\* log.Println("sshing to the server"); conn, err := ssh.Dial("tcp", addr, conf):
\* the TCP connect, then the handshake with public-key authentication.
Dial ==
    /\ proc = "running"
    /\ pc = "Dial"
    /\ IF fault.stage \in {"Dial", "Auth"}
         THEN /\ events' = Append(events, Ev("Dial", 0, FALSE))
              /\ Fatal(<<"sshing to the server",
                         FatalMsg(fault.stage)>>)
              /\ pc' = pc
         ELSE /\ events' = Append(events, Ev("Dial", 0, TRUE))
              /\ log' = Append(log, "sshing to the server")
              /\ pc' = "NewSession"
              /\ UNCHANGED <<proc, exitCode>>
    /\ UNCHANGED <<envVars, i, stdinBytes, node, timeVars, sessVars>>

\* session, err := conn.NewSession(); defer session.Close()
NewSession ==
    /\ Call("NewSession", "NewSession", "StdinPipe", << >>,
            FatalMsg("NewSession"))
    /\ session' = IF fault.stage = "NewSession" THEN session ELSE "open"
    /\ UNCHANGED <<envVars, i, stdinBytes, node, timeVars, closeCount, remote,
                   relay, pending>>

\* stdin, err := session.StdinPipe()
StdinPipe ==
    /\ Call("StdinPipe", "StdinPipe", "StderrPipe", << >>,
            FatalMsg("StdinPipe"))
    /\ UNCHANGED <<envVars, i, stdinBytes, node, timeVars, sessVars>>

\* stderr, err := session.StderrPipe()
StderrPipe ==
    /\ Call("StderrPipe", "StderrPipe", "StdoutPipe", << >>,
            FatalMsg("StderrPipe"))
    /\ UNCHANGED <<envVars, i, stdinBytes, node, timeVars, sessVars>>

\* stdout, err := session.StdoutPipe()
StdoutPipe ==
    /\ Call("StdoutPipe", "StdoutPipe", "GoStderr", << >>,
            FatalMsg("StdoutPipe"))
    /\ UNCHANGED <<envVars, i, stdinBytes, node, timeVars, sessVars>>

\* ------------------------------------------------- main: relay, shell

\* go copy(os.Stderr, stderr)
GoStderr ==
    /\ proc = "running"
    /\ pc = "GoStderr"
    /\ relay' = [relay EXCEPT !["stderr"] = "copying"]
    /\ events' = Append(events, Ev("GoStderr", 0, TRUE))
    /\ pc' = "GoStdout"
    /\ UNCHANGED <<envVars, i, log, stdinBytes, node, timeVars, session,
                   closeCount, remote, pending, proc, exitCode>>

\* go copy(os.Stdout, stdout); log.Println("connected.. running commands")
GoStdout ==
    /\ proc = "running"
    /\ pc = "GoStdout"
    /\ relay' = [relay EXCEPT !["stdout"] = "copying"]
    /\ events' = Append(events, Ev("GoStdout", 0, TRUE))
    /\ log' = Append(log, "connected.. running commands")
    /\ pc' = "Shell"
    /\ UNCHANGED <<envVars, i, stdinBytes, node, timeVars, session,
                   closeCount, remote, pending, proc, exitCode>>

\* A variant of Shell that goes on after an error of session.Shell().
ShellIgnoreErr ==
    /\ proc = "running"
    /\ pc = "Shell"
    /\ events' = Append(events, Ev("Shell", 0, fault.stage # "Shell"))
    /\ pc' = LoopNext(1)
    /\ remote' = IF fault.stage = "Shell" THEN remote ELSE "running"
    /\ UNCHANGED <<envVars, i, log, stdinBytes, node, timeVars, session,
                   closeCount, relay, pending, proc, exitCode>>

\* session.Shell(): the remote login shell is started; the range loop begins
Shell ==
    /\ Call("Shell", "Shell", LoopNext(1), << >>,
            FatalMsg("Shell"))
    /\ remote' = IF fault.stage = "Shell" THEN remote ELSE "running"
    /\ UNCHANGED <<envVars, i, stdinBytes, node, timeVars, session,
                   closeCount, relay, pending>>

\* ---------------------------------------------- main: commands, wait

\* A variant of WriteCmd that goes on with the next command after a failed
\* write.
WriteCmdIgnoreErr ==
    /\ proc = "running"
    /\ pc = "Write"
    /\ i <= Len(cmds)
    /\ LET cmdstr == Join(cmds[i])
           failing == fault.stage = "Write" /\ fault.k = i
       IN  /\ events' = Append(events, Ev("Write", i, ~failing))
           /\ stdinBytes' = IF failing THEN stdinBytes ELSE stdinBytes \o Line(cmds[i])
           /\ log' = Append(log, "+ " \o Quote(cmdstr))
    /\ i' = i + 1
    /\ pc' = LoopNext(i + 1)
    /\ UNCHANGED <<envVars, node, timeVars, sessVars, proc, exitCode>>

\* A variant of WriteCmd that writes a command only once the relays have
\* drained the session's output.
WriteCmdAfterRelays ==
    /\ proc = "running"
    /\ pc = "Write"
    /\ i <= Len(cmds)
    /\ \A s \in Streams : pending[s] = 0 /\ relay[s] = "copying"
    /\ LET cmdstr == Join(cmds[i])
           failing == fault.stage = "Write" /\ fault.k = i
       IN  IF failing
             THEN /\ stdinBytes' = stdinBytes
                  /\ events' = Append(events, Ev("Write", i, FALSE))
                  /\ Fatal(<<"+ " \o Quote(cmdstr), FatalMsg("Write")>>)
                  /\ UNCHANGED <<pc, i>>
             ELSE /\ stdinBytes' = stdinBytes \o Line(cmds[i])
                  /\ events' = Append(events, Ev("Write", i, TRUE))
                  /\ log' = Append(log, "+ " \o Quote(cmdstr))
                  /\ i' = i + 1
                  /\ pc' = LoopNext(i + 1)
                  /\ UNCHANGED <<proc, exitCode>>
    /\ UNCHANGED <<envVars, node, timeVars, sessVars>>

\* One iteration of the range loop:
\*   cmdstr := strings.Join(cmd, " "); log.Printf("+ %q\n", cmdstr)
\*   _, err = fmt.Fprintf(stdin, "%s\n", cmdstr)
\*   if err != nil { log.Fatalln("failed to write command: %w", err) }
\* A failed write may have delivered any proper prefix of the line.
WriteCmd ==
    /\ proc = "running"
    /\ pc = "Write"
    /\ i <= Len(cmds)
    /\ LET cmdstr == Join(cmds[i])
           line == Line(cmds[i])
       IN  IF fault.stage = "Write" /\ fault.k = i
             THEN /\ \E n \in ShortWrites(line) :
                        stdinBytes' = stdinBytes \o SubSeq(line, 1, n)
                  /\ events' = Append(events, Ev("Write", i, FALSE))
                  /\ Fatal(<<"+ " \o Quote(cmdstr),
                             FatalMsg("Write")>>)
                  /\ UNCHANGED <<pc, i>>
             ELSE /\ stdinBytes' = stdinBytes \o line
                  /\ events' = Append(events, Ev("Write", i, TRUE))
                  /\ log' = Append(log, "+ " \o Quote(cmdstr))
                  /\ i' = i + 1
                  /\ pc' = LoopNext(i + 1)
                  /\ UNCHANGED <<proc, exitCode>>
    /\ UNCHANGED <<envVars, node, timeVars, sessVars>>

\* A variant of Wait that does not look at the status session.Wait returns.
WaitIgnoreErr ==
    /\ proc = "running"
    /\ pc = "Wait"
    /\ remote \in {"exit0", "exit1"}
    /\ events' = Append(events, Ev("Wait", 0, remote = "exit0"))
    /\ pc' = "Return"
    /\ UNCHANGED <<envVars, i, log, stdinBytes, node, timeVars, sessVars,
                   proc, exitCode>>

\* A variant of Wait that gives up, with an error, while the remote shell
\* is still running (a deadline on the wait).
WaitWithTimeout ==
    /\ proc = "running"
    /\ pc = "Wait"
    /\ IF remote # "exit0"
         THEN /\ events' = Append(events, Ev("Wait", 0, FALSE))
              /\ Fatal(<<FatalMsg("Wait")>>)
              /\ pc' = pc
         ELSE /\ events' = Append(events, Ev("Wait", 0, TRUE))
              /\ pc' = "Return"
              /\ UNCHANGED <<log, proc, exitCode>>
    /\ UNCHANGED <<envVars, i, stdinBytes, node, timeVars, sessVars>>

\* err := session.Wait(): blocks until the remote shell has exited, and
\* returns its status; if err != nil { log.Fatalln(err) }
Wait ==
    /\ proc = "running"
    /\ pc = "Wait"
    /\ remote \in {"exit0", "exit1"}
    /\ IF remote = "exit1"
         THEN /\ events' = Append(events, Ev("Wait", 0, FALSE))
              /\ Fatal(<<FatalMsg("Wait")>>)
              /\ pc' = pc
         ELSE /\ events' = Append(events, Ev("Wait", 0, TRUE))
              /\ pc' = "Return"
              /\ UNCHANGED <<log, proc, exitCode>>
    /\ UNCHANGED <<envVars, i, stdinBytes, node, timeVars, sessVars>>

\* main returns: the deferred session.Close() runs
Return ==
    /\ proc = "running"
    /\ pc = "Return"
    /\ session' = "closed"
    /\ closeCount' = closeCount + 1
    /\ events' = Append(events, Ev("Close", 0, TRUE))
    /\ pc' = "Exit"
    /\ UNCHANGED <<envVars, i, log, stdinBytes, node, timeVars, remote, relay,
                   pending, proc, exitCode>>

\* main has returned: the process exits with status 0
Exit ==
    /\ proc = "running"
    /\ pc = "Exit"
    /\ proc' = "exited"
    /\ exitCode' = 0
    /\ UNCHANGED <<envVars, pc, i, events, log, stdinBytes, node, timeVars,
                   sessVars>>

\* ---------------------------------------------------- the remote shell

\* The remote shell writes a chunk to stream s of the session.
RemoteEmit(s) ==
    /\ proc = "running"
    /\ remote = "running"
    /\ pending[s] < MaxPending
    /\ pending' = [pending EXCEPT ![s] = @ + 1]
    /\ UNCHANGED <<envVars, pc, i, events, log, stdinBytes, node, timeVars,
                   session, closeCount, remote, relay, proc, exitCode>>

\* The remote shell exits, with the status this run's session.Wait reports.
RemoteExit ==
    /\ proc = "running"
    /\ remote = "running"
    /\ remote' = IF fault.stage = "Wait" THEN "exit1" ELSE "exit0"
    /\ UNCHANGED <<envVars, pc, i, events, log, stdinBytes, node, timeVars,
                   session, closeCount, relay, pending, proc, exitCode>>

\* ------------------------------------------- the relay goroutines: copy

\* io.Copy(w, r) moves one chunk of stream s to the local output.
RelayCopy(s) ==
    /\ proc = "running"
    /\ relay[s] = "copying"
    /\ pending[s] > 0
    /\ pending' = [pending EXCEPT ![s] = @ - 1]
    /\ UNCHANGED <<envVars, pc, i, events, log, stdinBytes, node, timeVars,
                   session, closeCount, remote, relay, proc, exitCode>>

\* io.Copy reads end-of-stream on s (the remote shell has exited or the
\* session is closed, and nothing is left to read) and returns nil.
RelayEOF(s) ==
    /\ proc = "running"
    /\ relay[s] = "copying"
    /\ pending[s] = 0
    /\ remote \in {"exit0", "exit1"} \/ session = "closed"
    /\ relay' = [relay EXCEPT ![s] = "eof"]
    /\ UNCHANGED <<envVars, pc, i, events, log, stdinBytes, node, timeVars,
                   session, closeCount, remote, pending, proc, exitCode>>

\* A variant of RelayFail in which a copy error is fatal.
RelayFailFatal(s) ==
    /\ proc = "running"
    /\ relay[s] = "copying"
    /\ relay' = [relay EXCEPT ![s] = "failed"]
    /\ proc' = "exited"
    /\ exitCode' = 1
    /\ UNCHANGED <<envVars, pc, i, events, log, stdinBytes, node, timeVars,
                   session, closeCount, remote, pending>>

\* io.Copy returns an error (a read of s or a write of the local output
\* failed): log.Printf("error while copying: %s\n", ...) and the goroutine
\* ends.  relay[s] = "failed" stands for that logged line.
RelayFail(s) ==
    /\ proc = "running"
    /\ relay[s] = "copying"
    /\ relay' = [relay EXCEPT ![s] = "failed"]
    /\ UNCHANGED <<envVars, pc, i, events, log, stdinBytes, node, timeVars,
                   session, closeCount, remote, pending, proc, exitCode>>

\* ----------------------------------------------------- specification

Next ==
    \/ OpenCfg
    \/ ReadCfg
    \/ UnmarshalCfg
    \/ ReadPub
    \/ NewOVHDriver
    \/ CreateCall
    \/ CreateTick
    \/ CreateReturn
    \/ SleepCall
    \/ SleepTick
    \/ SleepReturn
    \/ ReadPriv
    \/ ParsePrivateKey
    \/ Dial
    \/ NewSession
    \/ StdinPipe
    \/ StderrPipe
    \/ StdoutPipe
    \/ GoStderr
    \/ GoStdout
    \/ Shell
    \/ WriteCmd
    \/ Wait
    \/ Return
    \/ Exit
    \/ RemoteExit
    \/ \E s \in Streams : RemoteEmit(s)
    \/ \E s \in Streams : RelayCopy(s)
    \/ \E s \in Streams : RelayEOF(s)
    \/ \E s \in Streams : RelayFail(s)

\* A step of the primary thread: a statement of main.
MainStep ==
    \/ OpenCfg \/ ReadCfg \/ UnmarshalCfg \/ ReadPub \/ NewOVHDriver
    \/ CreateCall \/ CreateTick \/ CreateReturn
    \/ SleepCall \/ SleepTick \/ SleepReturn
    \/ ReadPriv \/ ParsePrivateKey \/ Dial \/ NewSession
    \/ StdinPipe \/ StderrPipe \/ StdoutPipe
    \/ GoStderr \/ GoStdout \/ Shell \/ WriteCmd \/ Wait \/ Return \/ Exit

Spec == Init /\ [][Next]_vars

\* The primary goroutine is scheduled: a statement of main that can execute
\* does execute (a blocking call that can return does return).
LiveSpec == Spec /\ WF_vars(MainStep)

\* =====================================================================
\* Properties
\* =====================================================================

\* What the history says: op was called, returned without error, returned
\* an error; how often it was called.
Called(op) == \E j \in 1..Len(events) : events[j].op = op
Succeeded(op) == \E j \in 1..Len(events) : events[j].op = op /\ events[j].ok
Failed(op) == \E j \in 1..Len(events) : events[j].op = op /\ ~events[j].ok
Count(op) == Cardinality({ j \in 1..Len(events) : events[j].op = op })

\* Every call op in the history comes after a successful call of first.
After(first, op) ==
    \A j \in 1..Len(events) :
        events[j].op = op =>
            \E m \in 1..(j - 1) : events[m].op = first /\ events[m].ok

\* Command k was written, successfully.
Written(k) == \E j \in 1..Len(events) : events[j] = Ev("Write", k, TRUE)

\* The write of command k failed.
WriteFailed(k) == \E j \in 1..Len(events) : events[j] = Ev("Write", k, FALSE)

\* The first n tokens of cmd, a single space between neighbours.
RECURSIVE SpaceJoined(_, _)
SpaceJoined(cmd, n) ==
    IF n = 0 THEN ""
    ELSE IF n = 1 THEN cmd[1]
    ELSE SpaceJoined(cmd, n - 1) \o " " \o cmd[n]

\* What the input stream holds once the first n commands of L are sent:
\* each command's line, newline-terminated, in the order of L.
RECURSIVE Transcript(_, _)
Transcript(L, n) ==
    IF n = 0 THEN ""
    ELSE Transcript(L, n - 1) \o SpaceJoined(L[n], Len(L[n])) \o "\n"

\* The run's final outcome: EXITED, FAILED or ABORTED of the state machine.
Outcome ==
    IF proc # "exited" THEN "running"
    ELSE IF exitCode = 0 THEN "success"
    ELSE IF Failed("Wait") THEN "aborted"
    ELSE "failed"

\* The outcome the calls of main determine in this run.
ExpectedOutcome ==
    IF fault.stage = "none" THEN "success"
    ELSE IF fault.stage = "Wait" THEN "aborted"
    ELSE "failed"

\* The readiness delay has begun.
SleepBegun == pc = "Sleeping" \/ Called("Sleep")

\* ---------------------------------------------------------------- C1
\* C1: for every CommandList, as long as no write has failed the input
\* stream holds exactly the lines of the commands written so far, in list
\* order, each the tokens joined by one space plus one newline; the writes
\* are commands 1, 2, 3, ... each once; and once the loop is left the stream
\* is the transcript of the whole list ([["echo","hi"]] gives "echo hi\n").
C1_InputStreamIsTranscript ==
    /\ \A j \in 1..Len(events) :
           events[j].op = "Write" =>
               events[j].k = Cardinality({ m \in 1..j : events[m].op = "Write" })
    /\ ~Failed("Write") => stdinBytes = Transcript(cmds, Count("Write"))
    /\ pc \in {"Wait", "Return", "Exit"} =>
           /\ Count("Write") = Len(cmds)
           /\ stdinBytes = Transcript(cmds, Len(cmds))
    /\ (pc = "Wait" /\ cmds = << <<"echo", "hi">> >>) => stdinBytes = "echo hi\n"

C1_Witness ==
    /\ pc = "Wait"
    /\ cmds = << <<"echo", "hi">>, <<"sudo", "make", "install">> >>
    /\ stdinBytes = "echo hi\nsudo make install\n"

\* ---------------------------------------------------------------- C2
\* C2: in every run that created a session, session.Close() has run exactly
\* once when the process has ended, on the success path and on every
\* failure path after the session was created.
C2_SessionClosedExactlyOnce ==
    (proc = "exited" /\ Succeeded("NewSession")) => closeCount = 1

\* The success path does release the session once.
C2_Witness == proc = "exited" /\ exitCode = 0 /\ closeCount = 1

\* ---------------------------------------------------------------- C3
\* C3: a run that ends with a credential error (public-key file, private-key
\* file, private-key material) has not invoked ComputeDriver.Create, and no
\* node exists.
C3_CredentialErrorsBeforeRemote ==
    (Failed("ReadPub") \/ Failed("ReadPriv") \/ Failed("ParsePrivateKey")) =>
        /\ ~Called("Create")
        /\ ~node

\* ---------------------------------------------------------------- C4
\* C4: if ComputeDriver.Create returned an error the process has exited with
\* a non-zero status, the readiness delay never began, and there is no dial,
\* no session, no relay goroutine and no command write.
C4_CreateFailureAborts ==
    Failed("Create") =>
        /\ proc = "exited"
        /\ exitCode # 0
        /\ ~SleepBegun
        /\ sleepLeft = 0
        /\ ~node
        /\ ~Called("Dial")
        /\ ~Called("NewSession")
        /\ session = "none"
        /\ \A s \in Streams : relay[s] = "idle"
        /\ ~Called("Write")
        /\ stdinBytes = ""

C4_Witness == Failed("Create") /\ proc = "exited"

\* ---------------------------------------------------------------- C5
\* C5: if the write of command k failed, then no command after k is written
\* (the stream holds commands 1..k-1 and at most a proper prefix of line k),
\* the termination wait is never entered, and the process has exited with a
\* non-zero status.
C5_WriteFailureStopsTransmission ==
    \A k \in 1..Len(cmds) :
        WriteFailed(k) =>
            /\ \A j \in 1..Len(events) :
                   events[j].op = "Write" => events[j].k <= k
            /\ events[Len(events)] = Ev("Write", k, FALSE)
            /\ LET sent == Transcript(cmds, k - 1)
                   full == sent \o SpaceJoined(cmds[k], Len(cmds[k]))
               IN  /\ Len(sent) <= Len(stdinBytes)
                   /\ Len(stdinBytes) <= Len(full)
                   /\ stdinBytes = SubSeq(full, 1, Len(stdinBytes))
            /\ pc # "Wait"
            /\ ~Called("Wait")
            /\ proc = "exited"
            /\ exitCode # 0

C5_Witness ==
    /\ Len(cmds) >= 2
    /\ Succeeded("NewSession")
    /\ WriteFailed(1)
    /\ proc = "exited"

\* ---------------------------------------------------------------- C6
\* C6: the readiness delay begins only after Create has returned
\* successfully, and a dial is made only after the delay has fully elapsed:
\* never before it began, never while it is pending.
C6_DelayBeforeDial ==
    /\ SleepBegun => Succeeded("Create")
    /\ After("Create", "Sleep")
    /\ Called("Dial") => (Succeeded("Sleep") /\ sleepLeft = 0)
    /\ After("Sleep", "Dial")
    /\ pc \in {"Create", "Creating", "Sleep", "Sleeping"} => ~Called("Dial")
    /\ sleepLeft > 0 => (pc = "Sleeping" /\ ~Called("Dial"))

C6_Witness == Called("Dial") /\ Succeeded("Sleep") /\ sleepLeft = 0

\* ---------------------------------------------------------------- C7
\* The stage a call of main belongs to: (a) node creation 1, (b) readiness
\* wait 2, (c) session establishment (dial with authentication, session,
\* pipes) 3, (d) relay start 4, (e) command transmission (the shell the
\* lines are typed into, then the lines) 5, (f) termination wait 6; 0 for a
\* call that is no stage of the workflow.
StageOf(op) ==
    CASE op = "Create" -> 1
      [] op = "Sleep" -> 2
      [] op \in {"Dial", "NewSession", "StdinPipe", "StderrPipe", "StdoutPipe"} -> 3
      [] op \in {"GoStderr", "GoStdout"} -> 4
      [] op \in {"Shell", "Write"} -> 5
      [] op = "Wait" -> 6
      [] OTHER -> 0

\* Stage n has begun.
StageBegun(n) ==
    \/ \E j \in 1..Len(events) : StageOf(events[j].op) = n
    \/ n = 1 /\ pc = "Creating"
    \/ n = 2 /\ pc = "Sleeping"
    \/ n = 6 /\ pc = "Wait"

\* Stage n has completed without error.
StageDone(n) ==
    CASE n = 1 -> Succeeded("Create") /\ node
      [] n = 2 -> Succeeded("Sleep") /\ sleepLeft = 0
      [] n = 3 -> /\ Succeeded("Dial") /\ Succeeded("NewSession")
                  /\ Succeeded("StdinPipe") /\ Succeeded("StderrPipe")
                  /\ Succeeded("StdoutPipe")
                  /\ session # "none"
      [] n = 4 -> /\ Succeeded("GoStderr") /\ Succeeded("GoStdout")
                  /\ \A s \in Streams : relay[s] # "idle"
      [] n = 5 -> /\ Succeeded("Shell")
                  /\ \A k \in 1..Len(cmds) : Written(k)
      [] OTHER -> FALSE

\* C7: the six stages happen in strict sequence, each beginning only after
\* the one before it completed without error, and a call of main that fails
\* is the last thing the run does: the process has exited, non-zero (so after
\* a failed dial or authentication there is no session, no relay goroutine
\* and no command).
C7_StagesInStrictSequence ==
    /\ \A n \in 2..6 : StageBegun(n) => StageDone(n - 1)
    /\ \A j, m \in 1..Len(events) :
           (j < m /\ StageOf(events[j].op) # 0 /\ StageOf(events[m].op) # 0) =>
               StageOf(events[j].op) <= StageOf(events[m].op)
    /\ \A j \in 1..Len(events) :
           ~events[j].ok =>
               /\ j = Len(events)
               /\ proc = "exited"
               /\ exitCode # 0
    /\ (\E s \in Streams : relay[s] # "idle") => StageDone(3)
    /\ stdinBytes # "" => StageDone(4)
    /\ Failed("Dial") =>
           /\ session = "none"
           /\ ~Called("NewSession")
           /\ \A s \in Streams : relay[s] = "idle"
           /\ stdinBytes = ""

C7_Witness ==
    /\ Succeeded("Wait")
    /\ Len(cmds) >= 2
    /\ \A n \in 1..5 : StageDone(n)

\* ---------------------------------------------------------------- C8
\* C8: a command is written only after session.Shell() has been called and
\* has succeeded; if the shell start failed, nothing is ever written.
C8_ShellBeforeCommands ==
    /\ After("Shell", "Write")
    /\ (Called("Write") \/ stdinBytes # "") =>
           (Succeeded("Shell") /\ remote # "none")
    /\ pc = "Write" => Succeeded("Shell")
    /\ Failed("Shell") =>
           /\ ~Called("Write")
           /\ stdinBytes = ""
           /\ proc = "exited"

C8_Witness == Succeeded("Shell") /\ Written(1) /\ stdinBytes # ""

\* ---------------------------------------------------------------- C9
\* C9: a copy error of a relay goroutine is only logged.  The outcome of a
\* finished run is the one the calls of main determine, whatever the relays
\* did; the process exits non-zero only from a failed call of main; and with
\* a relay failed, the next command write and the return of the termination
\* wait are still enabled.
C9_RelayFailuresDoNotChangeOutcome ==
    /\ proc = "exited" => Outcome = ExpectedOutcome
    /\ (proc = "exited" /\ exitCode # 0) =>
           (Len(events) > 0 /\ ~events[Len(events)].ok)
    /\ (proc = "running" /\ pc = "Write") => ENABLED WriteCmd
    /\ (proc = "running" /\ pc = "Wait" /\ remote \in {"exit0", "exit1"}) =>
           ENABLED Wait

C9_Witness ==
    /\ proc = "exited"
    /\ exitCode = 0
    /\ \A s \in Streams : relay[s] = "failed"
    /\ Len(cmds) >= 2

\* --------------------------------------------------------------- C10
\* C10: the termination wait is entered only after every command of the
\* list has been written; so when the wait returns a failure status the run
\* ends ABORTED, non-zero, with that status as the last thing logged, and
\* the whole list was transmitted.
C10_WaitAfterAllCommands ==
    /\ (pc = "Wait" \/ Called("Wait")) =>
           /\ \A k \in 1..Len(cmds) : Written(k)
           /\ stdinBytes = Transcript(cmds, Len(cmds))
    /\ Failed("Wait") =>
           /\ Outcome = "aborted"
           /\ exitCode # 0
           /\ log[Len(log)] = ErrText

C10_Witness ==
    /\ Failed("Wait")
    /\ Len(cmds) >= 2
    /\ stdinBytes = Transcript(cmds, Len(cmds))

\* --------------------------------------------------------------- C11
\* The connection-stage calls that can fail, and the condition each failure
\* is: the three pipes are one condition, pipe acquisition.
ConnStages ==
    { "Dial", "Auth", "NewSession", "StdinPipe", "StderrPipe", "StdoutPipe",
      "Shell" }

Condition(stage) ==
    CASE stage = "Dial" -> "dial failure"
      [] stage = "Auth" -> "authentication failure"
      [] stage = "NewSession" -> "session-open failure"
      [] stage \in {"StdinPipe", "StderrPipe", "StdoutPipe"} -> "pipe-acquisition failure"
      [] stage = "Shell" -> "shell-start failure"
      [] OTHER -> stage

\* The call of main in which the fault of this run shows.
CallOf(stage) == IF stage = "Auth" THEN "Dial" ELSE stage

\* C11: a run that ended on a connection-stage failure has exited non-zero,
\* made the failing call once (no retry), and its last logged line is one
\* that no other of the five conditions produces.
C11_ConnectionFailuresDistinct ==
    (proc = "exited" /\ fault.stage \in ConnStages) =>
        /\ exitCode # 0
        /\ Failed(CallOf(fault.stage))
        /\ Count(CallOf(fault.stage)) = 1
        /\ \A o \in ConnStages :
               Condition(o) # Condition(fault.stage) =>
                   log[Len(log)] # FatalMsg(o)

\* --------------------------------------------------------------- C12
\* C12: the process exits 0 exactly when every call succeeded and the
\* termination wait returned success; a failed call ends the process at
\* once, non-zero, and the last logged line is one that the failure of no
\* other call produces (it identifies the failing stage).
C12_ExitStatusAndStageReport ==
    /\ proc = "exited" =>
           (exitCode = 0 <=>
                (Succeeded("Wait") /\ \A j \in 1..Len(events) : events[j].ok))
    /\ \A j \in 1..Len(events) :
           ~events[j].ok =>
               /\ proc = "exited"
               /\ exitCode # 0
               /\ events[j].op = CallOf(fault.stage)
               /\ \A o \in Stages \cup {"Write"} :
                      CallOf(o) # events[j].op => log[Len(log)] # FatalMsg(o)

\* --------------------------------------------------------------- C13
\* C13: a run whose termination wait has returned and whose process has
\* ended has written every command, and both relay goroutines have read
\* end-of-stream with nothing of the session's output left to copy.
C13_RunEndsAfterRelays ==
    (proc = "exited" /\ Called("Wait")) =>
        /\ \A k \in 1..Len(cmds) : Written(k)
        /\ \A s \in Streams : relay[s] = "eof" /\ pending[s] = 0

\* --------------------------------------------------------------- C14
\* C14: the relays and the command writer never block one another.  While
\* main is in the loop (the shell started, a command left to send) the next
\* write is enabled whatever the relay goroutines have done; and a relay
\* that is copying can take its next step (copy a chunk, read end-of-stream,
\* fail) wherever main is.
C14_RelaysNeverBlockCommands ==
    /\ (proc = "running" /\ pc = "Write") =>
           /\ Succeeded("Shell")
           /\ i <= Len(cmds)
           /\ ENABLED WriteCmd
    /\ \A s \in Streams :
           (proc = "running" /\ relay[s] = "copying") =>
               /\ ENABLED RelayFail(s)
               /\ pending[s] > 0 => ENABLED RelayCopy(s)
               /\ (pending[s] = 0 /\ remote \in {"exit0", "exit1"}) =>
                      ENABLED RelayEOF(s)

\* Mid-loop with one relay failed and the other holding output to copy.
C14_Witness ==
    /\ proc = "running"
    /\ pc = "Write"
    /\ i = 2
    /\ relay["stderr"] = "failed"
    /\ relay["stdout"] = "copying"
    /\ pending["stdout"] > 0

\* --------------------------------------------------------------- C15
\* What holds while main is in session.Wait(): the whole list is written,
\* the session and with it its input stream are open (nothing closed them),
\* the wait returns exactly when the remote shell has exited, and with the
\* remote shell running no statement of main can execute.
BlockedInWait ==
    (proc = "running" /\ pc = "Wait") =>
        /\ \A k \in 1..Len(cmds) : Written(k)
        /\ Succeeded("StdinPipe")
        /\ session = "open"
        /\ closeCount = 0
        /\ ~Called("Close")
        /\ ENABLED Wait <=> remote \in {"exit0", "exit1"}
        /\ remote = "running" => ~ENABLED MainStep

\* C15: once the commands are written main does nothing that ends the
\* session: blocked in the termination wait it holds the input stream open
\* and has no timeout; the step in which the remote shell ends is never a
\* statement of main, and main leaves the wait only after that step.
C15_OnlyRemoteEndsSession ==
    /\ []BlockedInWait
    /\ [][(remote = "running" /\ remote' # "running") =>
              UNCHANGED <<pc, i, events, log, stdinBytes, session, closeCount,
                          proc, exitCode>>]_vars
    /\ [][(pc = "Wait" /\ remote = "running") => (pc' = "Wait" /\ proc' = "running")]_vars

C15_Witness ==
    /\ proc = "running"
    /\ pc = "Wait"
    /\ remote = "running"
    /\ Len(cmds) >= 2
    /\ session = "open"

\* --------------------------------------------------------------- C16
\* Once the loop is left, every command of the list has been written by
\* exactly one write.
OneWritePerCommand ==
    pc \in {"Wait", "Return", "Exit"} =>
        /\ Count("Write") = Len(cmds)
        /\ \A k \in 1..Len(cmds) :
               Cardinality({ j \in 1..Len(events) :
                               events[j].op = "Write" /\ events[j].k = k }) = 1
        /\ \A j \in 1..Len(events) : events[j].op = "Write" => events[j].ok

\* C16: when every call returns and every write succeeds, main writes each
\* command once and then enters the termination wait; if moreover the remote
\* shell eventually exits, the run eventually ends, EXITED on a success
\* status and ABORTED on a failure status; and once the process has ended no
\* further action occurs.
C16_SequencerTerminates ==
    /\ []OneWritePerCommand
    /\ [](proc = "exited" => ~ENABLED Next)
    /\ (fault.stage \in {"none", "Wait"} /\ <>(remote \in {"exit0", "exit1"})) =>
           <>(/\ proc = "exited"
              /\ Called("Wait")
              /\ Outcome = (IF fault.stage = "none" THEN "success" ELSE "aborted"))

C16_Witness ==
    /\ proc = "exited"
    /\ Succeeded("Wait")
    /\ remote = "exit0"
    /\ Len(cmds) = 2
    /\ Count("Write") = 2

\* --------------------------------------------------------------- C17
\* C17: once Create has succeeded the node exists in every later state, to
\* the end of the run and after it, on the success path and on every failure
\* path; the only step that changes the node record is the return of Create.
C17_NodeNeverTornDown ==
    /\ [](Succeeded("Create") <=> node)
    /\ [][node => node']_vars
    /\ [][node' # node => (pc = "Creating" /\ pc' = "Sleep")]_vars

\* A run that failed after the node was created has left it in place.
C17_Witness ==
    /\ proc = "exited"
    /\ exitCode # 0
    /\ Failed("Dial")
    /\ node

\* --------------------------------------------------------------- C18
\* The calls a run makes at most once.
OnceCalls == {"Create", "Dial", "NewSession", "Shell", "Wait"}

\* C18: node creation, dial, session open, shell start and termination wait
\* are each invoked at most once (none is called again after it failed):
\* at most one node, one connection, one session; a run that succeeded has
\* invoked each exactly once.
C18_EachStageAtMostOnce ==
    /\ \A op \in OnceCalls : Count(op) <= 1
    /\ Count("Sleep") <= 1
    /\ Count("Close") <= 1
    /\ closeCount <= 1
    /\ (proc = "exited" /\ exitCode = 0) =>
           \A op \in OnceCalls : Count(op) = 1 /\ Succeeded(op)

C18_Witness ==
    /\ proc = "exited"
    /\ exitCode = 0
    /\ \A op \in OnceCalls : Count(op) = 1
    /\ node
    /\ session = "closed"

====
